---- MODULE Spec2Model ----
(***************************************************************************)
(* The /books endpoint of go-practice5 (src/main.go): one HTTP handler,    *)
(* makeGetBooksHandler, that calls getBooks and writes the response.       *)
(*                                                                         *)
(* Text is a sequence of lexemes.  Caller-supplied text (the raw query     *)
(* parameters) is a sequence of single characters; the literals of the     *)
(* source are kept as one lexeme each ("SELECT id, ... FROM books"), and a *)
(* formatted number is the sequence of its decimal digits.                 *)
(***************************************************************************)
EXTENDS Integers, Sequences, FiniteSets, TLC

\* getBooks' constants.
defaultLimit == 10
maxLimit == 100

\* Bounds of the model: rows a cursor may hold, milliseconds a query may take.
MaxRows == 2
MaxElapsed == 1

-----------------------------------------------------------------------------
(* strings, strconv, fmt *)

\* unicode.IsSpace, restricted to the characters the inputs use.
IsSpace(c) == c \in {" ", "\t", "\n"}

RECURSIVE TrimLeft(_)
TrimLeft(s) ==
    IF s # <<>> /\ IsSpace(Head(s)) THEN TrimLeft(Tail(s)) ELSE s

RECURSIVE TrimRight(_)
TrimRight(s) ==
    IF s # <<>> /\ IsSpace(s[Len(s)]) THEN TrimRight(SubSeq(s, 1, Len(s) - 1)) ELSE s

\* strings.TrimSpace
TrimSpace(s) == TrimRight(TrimLeft(s))

DigitChars == <<"0", "1", "2", "3", "4", "5", "6", "7", "8", "9">>

IsDigit(c) == \E i \in 1..Len(DigitChars) : DigitChars[i] = c

DigitVal(c) == (CHOOSE i \in 1..Len(DigitChars) : DigitChars[i] = c) - 1

SyntaxError == [ok |-> FALSE, v |-> 0]

\* The digit loop of strconv.Atoi: any byte outside '0'..'9' is a syntax error.
RECURSIVE ParseDigits(_, _)
ParseDigits(s, n) ==
    IF s = <<>> THEN [ok |-> TRUE, v |-> n]
    ELSE IF ~IsDigit(Head(s)) THEN SyntaxError
    ELSE ParseDigits(Tail(s), n * 10 + DigitVal(Head(s)))

\* strconv.Atoi on the short inputs of the model (the fast path: an optional
\* sign, then one or more decimal digits; no range error below 19 bytes).
Atoi(s) ==
    IF s = <<>> THEN SyntaxError
    ELSE LET signed == Head(s) \in {"-", "+"}
             body == IF signed THEN Tail(s) ELSE s
             r == ParseDigits(body, 0)
         IN  IF body = <<>> \/ ~r.ok THEN SyntaxError
             ELSE [ok |-> TRUE, v |-> IF Head(s) = "-" THEN 0 - r.v ELSE r.v]

RECURSIVE FormatUint(_)
FormatUint(n) ==
    IF n < 10 THEN <<DigitChars[n + 1]>>
    ELSE FormatUint(n \div 10) \o <<DigitChars[(n % 10) + 1]>>

\* The %d verb of fmt.Sprintf.
FormatInt(n) == IF n < 0 THEN <<"-">> \o FormatUint(0 - n) ELSE FormatUint(n)


\* strings.Join
RECURSIVE Join(_, _)
Join(elems, sep) ==
    IF elems = <<>> THEN <<>>
    ELSE IF Len(elems) = 1 THEN elems[1]
    ELSE elems[1] \o sep \o Join(Tail(elems), sep)

-----------------------------------------------------------------------------
(* Go values *)

\* The nil error; every other error is its message.
NilErr == "<nil>"

\* A []Book: the nil slice and the empty slice are different values.
NilSlice == [isNil |-> TRUE, elems |-> <<>>]

\* append with the new book put first.
PrependSlice(s, b) == [isNil |-> FALSE, elems |-> <<b>> \o s.elems]

\* append(books, b)
AppendSlice(s, b) == [isNil |-> FALSE, elems |-> Append(s.elems, b)]

\* An interface{} holding a string or an int.
StrArg(s) == [type |-> "string", str |-> s]
IntArg(n) == [type |-> "int", int |-> n]

\* The %v verb on one argument.
FormatArg(a) == IF a.type = "string" THEN a.str ELSE FormatInt(a.int)

\* The %v verb on []interface{}: the elements in brackets, separated by spaces.
FormatArgs(as) ==
    <<"[">> \o Join([i \in 1..Len(as) |-> FormatArg(as[i])], <<" ">>) \o <<"]">>

-----------------------------------------------------------------------------
(* The requests the handler is given: the four raw query parameters, as       *)
(* r.URL.Query().Get returns them ("" for an absent parameter).               *)

PriceAsc == <<"p", "r", "i", "c", "e", "_", "a", "s", "c">>
PriceDesc == <<"p", "r", "i", "c", "e", "_", "d", "e", "s", "c">>

Pad(s) == <<" ">> \o s \o <<" ">>

LimitParams ==
    { <<>>, <<" ">>, Pad(<<"+", "1">>), FormatInt(maxLimit), FormatInt(maxLimit + 1),
      <<"0">>, <<"-", "1">>, <<"a">>, <<"1", "a">>, <<"1", " ", "0">>, <<"-">> }

OffsetParams ==
    { <<>>, <<" ">>, <<"0">>, Pad(<<"2">>),
      <<"-", "2">>, <<"x">>, <<"2", ".", "5">> }

GenreParams == { <<>>, <<" ">>, Pad(<<"F">>), <<"'", ";">> }

SortParams ==
    { <<>>, <<" ">>, PriceDesc, Pad(PriceAsc),
      <<"p", "r", "i", "c", "e">>, <<"i", "d", ";">> }

Requests ==
    [limit : LimitParams, offset : OffsetParams, genre : GenreParams, sort : SortParams]

-----------------------------------------------------------------------------
(* The database: what db.QueryContext and the cursor may answer.              *)

\* Rows of the books table, columns in the order of the SELECT list.
Table == { <<1, "Dune", 30, "F">>, <<2, "Emma", 10, "R">> }

Cursors == UNION { [1..n -> Table] : n \in 0..MaxRows }

NoRows == [rows |-> <<>>, pos |-> 0, open |-> FALSE, lasterr |-> NilErr]

\* rows.Scan(&b.ID, &b.Title, &b.Price, &b.Genre)
Scan(row) == [ID |-> row[1], Title |-> row[2], Price |-> row[3], Genre |-> row[4]]

-----------------------------------------------------------------------------
(* getBooks: validation of the parameters *)

\* ResolveLimit without the cap of lines 80-82.
ResolveLimitUncapped(raw) ==
    LET s == TrimSpace(raw)
        r == Atoi(s)
    IN  IF s # <<>> /\ ~(r.ok /\ r.v > 0) THEN [ok |-> FALSE, v |-> 0]
        ELSE [ok |-> TRUE, v |-> IF s # <<>> THEN r.v ELSE defaultLimit]

\* limit: the default, or the positive integer given; then the cap.
ResolveLimit(raw) ==
    LET s == TrimSpace(raw)
        r == Atoi(s)
        limit0 == IF s # <<>> THEN r.v ELSE defaultLimit
    IN  IF s # <<>> /\ ~(r.ok /\ r.v > 0) THEN [ok |-> FALSE, v |-> 0]
        ELSE [ok |-> TRUE, v |-> IF limit0 > maxLimit THEN maxLimit ELSE limit0]

\* ResolveOffset without the test v >= 0 of line 86.
ResolveOffsetAnySign(raw) ==
    LET s == TrimSpace(raw)
        r == Atoi(s)
    IN  IF s # <<>> /\ ~r.ok THEN [ok |-> FALSE, v |-> 0]
        ELSE [ok |-> TRUE, v |-> IF s # <<>> THEN r.v ELSE 0]

\* offset: 0, or the non-negative integer given.
ResolveOffset(raw) ==
    LET s == TrimSpace(raw)
        r == Atoi(s)
    IN  IF s # <<>> /\ ~(r.ok /\ r.v >= 0) THEN [ok |-> FALSE, v |-> 0]
        ELSE [ok |-> TRUE, v |-> IF s # <<>> THEN r.v ELSE 0]

\* sort: the ORDER BY expression the switch selects.
ResolveSort(raw) ==
    LET sortParam == TrimSpace(raw)
    IN  CASE sortParam = <<>> -> [ok |-> TRUE, orderBy |-> <<>>]
          [] sortParam = PriceAsc -> [ok |-> TRUE, orderBy |-> <<"price ASC">>]
          [] sortParam = PriceDesc -> [ok |-> TRUE, orderBy |-> <<"price DESC">>]
          [] OTHER -> [ok |-> FALSE, orderBy |-> <<>>]

Invalid(msg) ==
    [err |-> msg, limit |-> 0, offset |-> 0, genre |-> <<>>, orderBy |-> <<>>]

\* Validate with sort checked before limit and offset.
ValidateSortFirst(r) ==
    LET l == ResolveLimit(r.limit)
        o == ResolveOffset(r.offset)
        s == ResolveSort(r.sort)
    IN  IF ~s.ok THEN Invalid("invalid sort value")
        ELSE IF ~l.ok THEN Invalid("invalid limit")
        ELSE IF ~o.ok THEN Invalid("invalid offset")
        ELSE [err |-> NilErr, limit |-> l.v, offset |-> o.v,
              genre |-> TrimSpace(r.genre), orderBy |-> s.orderBy]

\* The checks in the order getBooks makes them; the first that fails returns.
Validate(r) ==
    LET l == ResolveLimit(r.limit)
        o == ResolveOffset(r.offset)
        s == ResolveSort(r.sort)
    IN  IF ~l.ok THEN Invalid("invalid limit")
        ELSE IF ~o.ok THEN Invalid("invalid offset")
        ELSE IF ~s.ok THEN Invalid("invalid sort value")
        ELSE [err |-> NilErr, limit |-> l.v, offset |-> o.v,
              genre |-> TrimSpace(r.genre), orderBy |-> s.orderBy]

-----------------------------------------------------------------------------
(* getBooks: the statement and its arguments *)

\* fmt.Sprintf("genre = $%d", n)
GenreCondition(n) == <<"genre = ", "$">> \o FormatInt(n)

\* fmt.Sprintf(" LIMIT $%d", n)
LimitClause(n) == <<" LIMIT ", "$">> \o FormatInt(n)

\* fmt.Sprintf(" OFFSET $%d", n)
OffsetClause(n) == <<" OFFSET ", "$">> \o FormatInt(n)

\* BuildQuery with the genre written into the statement instead of bound.
BuildQueryInlineGenre(g, ob, lim, off) ==
    LET where == IF g # <<>> THEN <<(<<"genre = '">> \o g \o <<"'">>)>> ELSE <<>>
        sb1 == <<"SELECT id, title, price, genre FROM books">>
        sb2 == IF Len(where) > 0
               THEN sb1 \o <<" WHERE ">> \o Join(where, <<" AND ">>) ELSE sb1
        sb3 == IF ob # <<>> THEN sb2 \o <<" ORDER BY ">> \o ob ELSE sb2
        args2 == <<IntArg(lim)>>
        sb4 == sb3 \o LimitClause(Len(args2))
        args3 == Append(args2, IntArg(off))
        sb5 == sb4 \o OffsetClause(Len(args3))
    IN  [query |-> sb5, args |-> args3]

\* BuildQuery with the LIMIT and OFFSET placeholders numbered before their
\* arguments are appended.
BuildQueryStaleOrdinal(g, ob, lim, off) ==
    LET args1 == IF g # <<>> THEN <<StrArg(g)>> ELSE <<>>
        where == IF g # <<>> THEN <<GenreCondition(Len(args1))>> ELSE <<>>
        sb1 == <<"SELECT id, title, price, genre FROM books">>
        sb2 == IF Len(where) > 0
               THEN sb1 \o <<" WHERE ">> \o Join(where, <<" AND ">>) ELSE sb1
        sb3 == IF ob # <<>> THEN sb2 \o <<" ORDER BY ">> \o ob ELSE sb2
        sb4 == sb3 \o LimitClause(Len(args1))
        args2 == Append(args1, IntArg(lim))
        sb5 == sb4 \o OffsetClause(Len(args2))
        args3 == Append(args2, IntArg(off))
    IN  [query |-> sb5, args |-> args3]

BuildQuery(g, ob, lim, off) ==
    LET args1 == IF g # <<>> THEN <<StrArg(g)>> ELSE <<>>
        where == IF g # <<>> THEN <<GenreCondition(Len(args1))>> ELSE <<>>
        sb1 == <<"SELECT id, title, price, genre FROM books">>
        sb2 == IF Len(where) > 0
               THEN sb1 \o <<" WHERE ">> \o Join(where, <<" AND ">>) ELSE sb1
        sb3 == IF ob # <<>> THEN sb2 \o <<" ORDER BY ">> \o ob ELSE sb2
        args2 == Append(args1, IntArg(lim))
        sb4 == sb3 \o LimitClause(Len(args2))
        args3 == Append(args2, IntArg(off))
        sb5 == sb4 \o OffsetClause(Len(args3))
    IN  [query |-> sb5, args |-> args3]

\* QueryLog without the arguments.
QueryLogNoArgs(q, as, ms) ==
    <<"SQL: ">> \o q \o <<" | took=">> \o FormatInt(ms) \o <<"ms">>

\* log.Printf("SQL: %s | args=%v | took=%dms", query, args, elapsed)
QueryLog(q, as, ms) ==
    <<"SQL: ">> \o q \o <<" | args=">> \o FormatArgs(as)
        \o <<" | took=">> \o FormatInt(ms) \o <<"ms">>

-----------------------------------------------------------------------------
(* makeGetBooksHandler: the response *)

\* json.Encoder.Encode of one Book, indented.
EncodeBook(b) ==
    <<"{", "\"id\": ">> \o FormatInt(b.ID) \o <<",", "\"title\": ", "\"", b.Title, "\"", ",",
      "\"price\": ">> \o FormatInt(b.Price) \o <<",", "\"genre\": ", "\"", b.Genre, "\"", "}">>

\* json.Encoder.Encode of a []Book: a nil slice encodes as null.
EncodeBooks(books) ==
    IF books.isNil THEN <<"null", "\n">>
    ELSE <<"[">>
         \o Join([i \in 1..Len(books.elems) |-> EncodeBook(books.elems[i])], <<",">>)
         \o <<"]", "\n">>

\* QueryTimeHeader without the unit.
QueryTimeHeaderBare(ms) == FormatInt(ms)

\* fmt.Sprintf("%dms", queryTimeMs)
QueryTimeHeader(ms) == FormatInt(ms) \o <<"ms">>

NoResponse == [status |-> 0, contentType |-> "", queryTime |-> <<>>, body |-> <<>>]

\* http.Error(w, err.Error(), http.StatusBadRequest), after the two headers.
ErrorResponse(ms, err) ==
    [status |-> 400, contentType |-> "text/plain; charset=utf-8",
     queryTime |-> QueryTimeHeader(ms), body |-> <<err, "\n">>]

\* The encoded books, after the two headers; the status defaults to 200.
BooksResponse(ms, books) ==
    [status |-> 200, contentType |-> "application/json",
     queryTime |-> QueryTimeHeader(ms), body |-> EncodeBooks(books)]

-----------------------------------------------------------------------------
(* The state: one request served by the handler *)

VARIABLES
    req,        \* the raw query parameters of the request
    pc,         \* where the handler is
    limit, offset, genre, orderBy,  \* getBooks' validated parameters
    query, args,    \* the statement and its bound arguments
    elapsed,    \* milliseconds measured around db.QueryContext
    qerr,       \* the error db.QueryContext returned
    rows,       \* the cursor db.QueryContext returned
    books,      \* the books decoded so far
    deferred,   \* getBooks' deferred calls
    ret,        \* what getBooks returns: books, queryTimeMs, err
    dbCalls,    \* the statements db.QueryContext was given
    logs,       \* the records written to the process logger
    resp        \* the response written

vars == <<req, pc, limit, offset, genre, orderBy, query, args, elapsed, qerr, rows,
          books, deferred, ret, dbCalls, logs, resp>>

params == <<limit, offset, genre, orderBy>>
stmt == <<query, args>>

NoReturn == [books |-> NilSlice, queryTimeMs |-> 0, err |-> NilErr]

Init ==
    /\ req \in Requests
    /\ pc = "validate"
    /\ limit = 0 /\ offset = 0 /\ genre = <<>> /\ orderBy = <<>>
    /\ query = <<>> /\ args = <<>>
    /\ elapsed = 0
    /\ qerr = NilErr
    /\ rows = NoRows
    /\ books = NilSlice
    /\ deferred = <<>>
    /\ ret = NoReturn
    /\ dbCalls = <<>>
    /\ logs = <<>>
    /\ resp = NoResponse

\* return b, ms, e: the results are set, then the deferred calls run.
Returning(b, ms, e) ==
    /\ ret' = [books |-> b, queryTimeMs |-> ms, err |-> e]
    /\ pc' = "return"

\* Lines 72-105: the parameters are resolved, or the first invalid one is reported.
ValidateParams ==
    /\ pc = "validate"
    /\ LET v == Validate(req)
       IN  IF v.err # NilErr
           THEN /\ Returning(NilSlice, 0, v.err)
                /\ UNCHANGED params
           ELSE /\ limit' = v.limit /\ offset' = v.offset
                /\ genre' = v.genre /\ orderBy' = v.orderBy
                /\ pc' = "build"
                /\ UNCHANGED ret
    /\ UNCHANGED <<req, stmt, elapsed, qerr, rows, books, deferred, dbCalls, logs, resp>>

\* Lines 107-132: the statement text and the argument list.
Build ==
    /\ pc = "build"
    /\ LET b == BuildQuery(genre, orderBy, limit, offset)
       IN  query' = b.query /\ args' = b.args
    /\ pc' = "query"
    /\ UNCHANGED <<req, params, elapsed, qerr, rows, books, deferred, ret, dbCalls, logs, resp>>

\* Lines 134-136: the one database call; it fails, or returns an open cursor.
QueryContext ==
    /\ pc = "query"
    /\ dbCalls' = Append(dbCalls, [query |-> query, args |-> args])
    /\ \E ms \in 0..MaxElapsed : elapsed' = ms
    /\ \/ /\ qerr' = "query failed"
          /\ rows' = NoRows
       \/ /\ qerr' = NilErr
          /\ \E c \in Cursors :
                rows' = [rows |-> c, pos |-> 0, open |-> TRUE, lasterr |-> NilErr]
    /\ pc' = "log"
    /\ UNCHANGED <<req, params, stmt, books, deferred, ret, logs, resp>>

\* Line 138.
LogQuery ==
    /\ pc = "log"
    /\ logs' = Append(logs, QueryLog(query, args, elapsed))
    /\ pc' = "checkerr"
    /\ UNCHANGED <<req, params, stmt, elapsed, qerr, rows, books, deferred, ret, dbCalls, resp>>

\* Line 143 left out: nothing is deferred.
DeferNothing(d) == d

\* defer rows.Close()
DeferClose(d) == Append(d, "rows.Close")

\* Lines 140-145: the query's error is returned, or the cursor's release is deferred.
CheckQueryErr ==
    /\ pc = "checkerr"
    /\ IF qerr # NilErr
       THEN /\ Returning(NilSlice, elapsed, qerr)
            /\ UNCHANGED <<deferred, books>>
       ELSE /\ deferred' = DeferClose(deferred)
            /\ books' = NilSlice
            /\ pc' = "next"
            /\ UNCHANGED ret
    /\ UNCHANGED <<req, params, stmt, elapsed, qerr, rows, dbCalls, logs, resp>>

\* Line 146, rows.Next(): the next row is ready, or the cursor ends (at its last
\* row, or early with an error) and database/sql closes it.
RowsNext ==
    /\ pc = "next"
    /\ \/ /\ rows.pos < Len(rows.rows)
          /\ rows' = [rows EXCEPT !.pos = @ + 1]
          /\ pc' = "scan"
       \/ /\ rows.pos = Len(rows.rows)
          /\ rows' = [rows EXCEPT !.open = FALSE]
          /\ pc' = "rowserr"
       \/ /\ rows' = [rows EXCEPT !.open = FALSE, !.lasterr = "rows failed"]
          /\ pc' = "rowserr"
    /\ UNCHANGED <<req, params, stmt, elapsed, qerr, books, deferred, ret, dbCalls, logs, resp>>

\* Lines 147-151: the row is decoded and appended, or the decode error is returned.
RowsScan ==
    /\ pc = "scan"
    /\ \/ /\ books' = AppendSlice(books, Scan(rows.rows[rows.pos]))
          /\ pc' = "next"
          /\ UNCHANGED ret
       \/ /\ Returning(NilSlice, elapsed, "scan failed")
          /\ UNCHANGED books
    /\ UNCHANGED <<req, params, stmt, elapsed, qerr, rows, deferred, dbCalls, logs, resp>>

\* Lines 153-156: the cursor's terminal error, or the books.
RowsErr ==
    /\ pc = "rowserr"
    /\ IF rows.lasterr # NilErr
       THEN Returning(NilSlice, elapsed, rows.lasterr)
       ELSE Returning(books, elapsed, NilErr)
    /\ UNCHANGED <<req, params, stmt, elapsed, qerr, rows, books, deferred, dbCalls, logs, resp>>

\* The deferred calls, run as getBooks returns.
RunDeferred(d, r) ==
    IF \E i \in 1..Len(d) : d[i] = "rows.Close" THEN [r EXCEPT !.open = FALSE] ELSE r

\* getBooks returns to the handler.
Return ==
    /\ pc = "return"
    /\ rows' = RunDeferred(deferred, rows)
    /\ deferred' = <<>>
    /\ pc' = "respond"
    /\ UNCHANGED <<req, params, stmt, elapsed, qerr, books, ret, dbCalls, logs, resp>>

\* Lines 49-61: the headers, then the error or the encoded books; a failed write
\* of the body is logged.
Respond ==
    /\ pc = "respond"
    /\ IF ret.err # NilErr
       THEN /\ resp' = ErrorResponse(ret.queryTimeMs, ret.err)
            /\ UNCHANGED logs
       ELSE /\ resp' = BooksResponse(ret.queryTimeMs, ret.books)
            /\ \/ UNCHANGED logs
               \/ logs' = Append(logs, <<"encode response: ", "write failed">>)
    /\ pc' = "done"
    /\ UNCHANGED <<req, params, stmt, elapsed, qerr, rows, books, deferred, ret, dbCalls>>

Next ==
    \/ ValidateParams
    \/ Build
    \/ QueryContext
    \/ LogQuery
    \/ CheckQueryErr
    \/ RowsNext
    \/ RowsScan
    \/ RowsErr
    \/ Return
    \/ Respond

Spec == Init /\ [][Next]_vars

-----------------------------------------------------------------------------
(* What the properties below speak of *)

\* getBooks has returned to the handler.
Returned == pc \in {"respond", "done"}

\* The database call was made.
Called == dbCalls # <<>>

\* An optional sign and one or more decimal digits.
Numeric(s) ==
    LET d == IF s # <<>> /\ Head(s) \in {"+", "-"} THEN Tail(s) ELSE s
    IN  d # <<>> /\ \A i \in 1..Len(d) : IsDigit(d[i])

\* The parameter as given is present, and is no integer greater than 0 (at least 0)
\* once the whitespace around it is dropped.
GivenBadLimit == req.limit # <<>> /\ ~(Numeric(TrimSpace(req.limit)) /\ Atoi(TrimSpace(req.limit)).v > 0)
GivenBadOffset == req.offset # <<>> /\ ~(Numeric(TrimSpace(req.offset)) /\ Atoi(TrimSpace(req.offset)).v >= 0)

\* The same, of the parameter with the whitespace around it dropped: a parameter
\* of whitespace only counts as absent.
BadLimit == TrimSpace(req.limit) # <<>> /\ GivenBadLimit
BadOffset == TrimSpace(req.offset) # <<>> /\ GivenBadOffset
BadSort == TrimSpace(req.sort) \notin {<<>>, PriceAsc, PriceDesc}

RejectedUncalled == ret.err # NilErr /\ ret.queryTimeMs = 0 /\ ~Called

\* C1 as stated: a request whose limit is non-numeric or not positive, whose offset
\* is non-numeric or negative, or whose sort is none of "", price_asc, price_desc,
\* ends in an error with elapsed time 0 and without a database call.
C1_AsStated ==
    (GivenBadLimit \/ GivenBadOffset \/ BadSort)
        => /\ ~Called
           /\ Returned => RejectedUncalled

\* C1, amended: the same of a request whose limit, offset or sort is malformed once
\* the whitespace around it is dropped; a limit or offset of whitespace only is
\* taken as absent.
C1_MalformedRejectedBeforeCall ==
    (BadLimit \/ BadOffset \/ BadSort)
        => /\ ~Called
           /\ Returned => RejectedUncalled

C1_Witness == pc = "done" /\ ~BadLimit /\ BadOffset /\ resp.status = 400

\* The digits that follow the head of s.
RECURSIVE TakeDigits(_)
TakeDigits(s) ==
    IF s # <<>> /\ IsDigit(Head(s)) THEN <<Head(s)>> \o TakeDigits(Tail(s)) ELSE <<>>

\* The ordinals of the placeholders of a statement, in the order they appear.
RECURSIVE Placeholders(_)
Placeholders(q) ==
    IF q = <<>> THEN <<>>
    ELSE IF Head(q) = "$"
         THEN <<Atoi(TakeDigits(Tail(q))).v>> \o Placeholders(Tail(q))
         ELSE Placeholders(Tail(q))

\* The ordinal of the placeholder that follows the keyword kw in q (0 if none).
OrdinalAfter(q, kw) ==
    IF \E i \in 1..(Len(q) - 1) : q[i] = kw /\ q[i + 1] = "$"
    THEN LET i == CHOOSE i \in 1..(Len(q) - 1) : q[i] = kw /\ q[i + 1] = "$"
         IN  Atoi(TakeDigits(SubSeq(q, i + 2, Len(q)))).v
    ELSE 0

\* The value bound to the placeholder after kw in a call.
BoundAfter(call, kw) == call.args[OrdinalAfter(call.query, kw)]

\* C2: the limit bound into the query is 10 for an absent limit, the value v given
\* when 0 < v <= 100 and 100 when v > 100; it is in 1..100 in every database call
\* (looked at as the call is made).
C2_BoundLimit ==
    \A k \in 1..Len(dbCalls) : pc = "log" =>
        LET bound == BoundAfter(dbCalls[k], " LIMIT ")
            s == TrimSpace(req.limit)
            v == Atoi(s).v
        IN  /\ bound.type = "int"
            /\ bound.int \in 1..100
            /\ s = <<>> => bound.int = 10
            /\ (s # <<>> /\ 0 < v /\ v <= 100) => bound.int = v
            /\ (s # <<>> /\ v > 100) => bound.int = 100

C2_Witness ==
    /\ Called /\ pc = "log" /\ Atoi(TrimSpace(req.limit)).v > 100
    /\ BoundAfter(dbCalls[1], " LIMIT ").int = 100


\* The statements that can be put together from the fixed fragments alone: the
\* SELECT, an optional " WHERE genre = $n", an optional " ORDER BY price ASC" or
\* " ORDER BY price DESC", " LIMIT $n" and " OFFSET $n".
Ordinal == { <<"1">>, <<"2">>, <<"3">> }

FixedStatements ==
    { <<"SELECT id, title, price, genre FROM books">> \o w \o o
        \o <<" LIMIT ", "$">> \o l \o <<" OFFSET ", "$">> \o f :
        w \in {<<>>} \cup { <<" WHERE ", "genre = ", "$">> \o n : n \in Ordinal },
        o \in { <<>>, <<" ORDER BY ", "price ASC">>, <<" ORDER BY ", "price DESC">> },
        l \in Ordinal, f \in Ordinal }

\* C3: the text given to db.QueryContext is made of the fixed fragments only; the
\* genre, limit and offset of the caller are in the argument list, not in the text.
C3_OnlyFixedFragments ==
    /\ pc = "query" => query \in FixedStatements
    /\ \A k \in 1..Len(dbCalls) :
          /\ dbCalls[k].query \in FixedStatements
          /\ TrimSpace(req.genre) # <<>> => dbCalls[k].args[1] = StrArg(TrimSpace(req.genre))

C3_Witness == Called /\ req.genre = <<"'", ";">> /\ orderBy = <<"price DESC">>

\* C4: with a genre the arguments are [genre, limit, offset], referenced as $1, $2,
\* $3; without, [limit, offset], referenced as $1, $2; the placeholders of the
\* statement are $1..$n, n the number of arguments, each used once (looked at as
\* the call is made).
C4_OrdinalsMatchArguments ==
    \A k \in 1..Len(dbCalls) : pc = "log" =>
        LET q == dbCalls[k].query
            a == dbCalls[k].args
            g == TrimSpace(req.genre)
        IN  /\ Placeholders(q) = [i \in 1..Len(a) |-> i]
            /\ IF g # <<>>
               THEN /\ a = <<StrArg(g), IntArg(limit), IntArg(offset)>>
                    /\ OrdinalAfter(q, "genre = ") = 1
                    /\ OrdinalAfter(q, " LIMIT ") = 2
                    /\ OrdinalAfter(q, " OFFSET ") = 3
               ELSE /\ a = <<IntArg(limit), IntArg(offset)>>
                    /\ OrdinalAfter(q, "genre = ") = 0
                    /\ OrdinalAfter(q, " LIMIT ") = 1
                    /\ OrdinalAfter(q, " OFFSET ") = 2

C4_Witness ==
    /\ Called /\ pc = "log"
    /\ TrimSpace(req.genre) = <<"F">> /\ Len(dbCalls[1].args) = 3 /\ offset = 2

\* t holds u as a run of consecutive lexemes.
Contains(t, u) ==
    \E i \in 0..(Len(t) - Len(u)) : SubSeq(t, i + 1, i + Len(u)) = u

\* The records of the logger that getBooks wrote.
QueryLogs == SelectSeq(logs, LAMBDA l : Head(l) = "SQL: ")

ValidationErrors == {"invalid limit", "invalid offset", "invalid sort value"}

\* The record holds the statement, the arguments in order and the milliseconds.
RecordsCall(l, call, ms) ==
    /\ Contains(l, call.query)
    /\ Contains(l, Join([i \in 1..Len(call.args) |->
                           IF call.args[i].type = "string" THEN call.args[i].str
                           ELSE FormatInt(call.args[i].int)], <<" ">>))
    /\ Contains(l, FormatInt(ms) \o <<"ms">>)

\* C5 as stated: every invocation of getBooks, also one that fails validation,
\* has written exactly one log record by the time it returns.
C5_AsStated == Returned => Len(QueryLogs) = 1

\* C5, amended: an invocation that passes validation writes exactly one record,
\* with the statement, the arguments and the milliseconds, whether the call and
\* the decoding succeed or fail; one that fails validation writes none.
C5_OneRecordPerQuery ==
    /\ Len(QueryLogs) <= 1
    /\ Returned =>
          IF ret.err \in ValidationErrors
          THEN QueryLogs = <<>>
          ELSE /\ Len(QueryLogs) = 1 /\ Len(dbCalls) = 1
               /\ RecordsCall(QueryLogs[1], dbCalls[1], ret.queryTimeMs)

C5_Witness == pc = "done" /\ ret.err = "query failed" /\ Len(QueryLogs) = 1 /\ genre # <<>>


\* The query succeeded and its cursor ended without a row and without an error.
MatchedNothing ==
    /\ Called /\ qerr = NilErr
    /\ rows.rows = <<>> /\ rows.lasterr = NilErr

\* C6: when the query succeeds and matches no row, getBooks returns no error and
\* an empty sequence that is not nil, and the handler answers 200 with an empty
\* JSON array, not with null.
C6_EmptyNotNull ==
    (pc = "done" /\ MatchedNothing) =>
        /\ ret.err = NilErr
        /\ ret.books.elems = <<>> /\ ~ret.books.isNil
        /\ resp.status = 200
        /\ resp.body = <<"[", "]", "\n">>

\* C7: a cursor that db.QueryContext returned is closed when getBooks has
\* returned, whichever way it returned.
C7_CursorClosedOnReturn == Returned => ~rows.open

C7_Witness ==
    /\ pc = "respond" /\ ret.err = "scan failed"
    /\ qerr = NilErr /\ rows.pos < Len(rows.rows) /\ ~rows.open

\* C8: the checks are made in the order limit, offset, sort and the first failure
\* is the one reported: an invalid limit gives the limit error whatever offset and
\* sort are, a valid limit with an invalid offset gives the offset error whatever
\* sort is, and the sort error is given only when limit and offset are valid.
C8_FirstFailureReported ==
    Returned =>
        /\ BadLimit => ret.err = "invalid limit"
        /\ (~BadLimit /\ BadOffset) => ret.err = "invalid offset"
        /\ (~BadLimit /\ ~BadOffset /\ BadSort) => ret.err = "invalid sort value"
        /\ ret.err = "invalid sort value" => (~BadLimit /\ ~BadOffset /\ BadSort)
        /\ ret.err = "invalid offset" => (~BadLimit /\ BadOffset)
        /\ ret.err = "invalid limit" => BadLimit

C8_Witness ==
    /\ pc = "respond" /\ BadLimit /\ BadOffset /\ BadSort /\ ret.err = "invalid limit"

\* C9: every response has the header X-Query-Time, the elapsed value getBooks
\* returned followed by "ms"; it is "0ms" after a validation failure; an error of
\* getBooks gives status 400 and success gives 200.
C9_QueryTimeAndStatus ==
    pc = "done" =>
        LET h == resp.queryTime
            n == Atoi(SubSeq(h, 1, Len(h) - 1))
        IN  /\ Len(h) >= 2 /\ h[Len(h)] = "ms"
            /\ Numeric(SubSeq(h, 1, Len(h) - 1)) /\ n.ok
            /\ n.v = ret.queryTimeMs
            /\ ret.queryTimeMs = IF Called THEN elapsed ELSE 0
            /\ ret.err \in ValidationErrors => h = <<"0", "ms">>
            /\ resp.status = IF ret.err # NilErr THEN 400 ELSE 200

C9_Witness ==
    /\ pc = "done" /\ resp.status = 400 /\ ret.err = "rows failed"
    /\ elapsed > 0 /\ resp.queryTime = <<"1", "ms">>

\* C10: getBooks returns no partial result: with an error (of the query, of a
\* Scan, also after rows were decoded, or of the cursor) the books returned are
\* nil; books are returned only without an error, and are then the rows of the
\* cursor, all of them, in the cursor's order.
C10_NoPartialResults ==
    Returned =>
        /\ ret.err # NilErr => ret.books = NilSlice
        /\ ret.books.elems # <<>> =>
              /\ ret.err = NilErr
              /\ Len(ret.books.elems) = Len(rows.rows)
              /\ \A i \in 1..Len(rows.rows) :
                    LET b == ret.books.elems[i]
                    IN  <<b.ID, b.Title, b.Price, b.Genre>> = rows.rows[i]
        /\ (ret.err = NilErr /\ Len(rows.rows) > 0) => Len(ret.books.elems) = Len(rows.rows)

C10_Witness ==
    /\ pc = "done" /\ ret.err = "scan failed"
    /\ books.elems # <<>> /\ ret.books = NilSlice

====
